---- MODULE Spec2Model ----
(***************************************************************************)
(* Model of the pix2pix timbre-transfer trainer (src/cyclegan/training.py) *)
(* and of the argument validation of the genre classifier (src/gtzan.py).  *)
(*                                                                         *)
(* Abstractions.  A network's weights are a function from layer name to    *)
(* the number of gradient updates the layer has received since it was      *)
(* constructed.  Losses are natural numbers.  A learning rate is kept in   *)
(* the log domain: the value v stands for 10^(v / epoch_size), so that     *)
(* multiplying by lr_mult = (end_lr/start_lr)^(1/epoch_size) adds          *)
(* EndLrExp - StartLrExp.  A mean is an exact fraction in lowest terms.    *)
(* A spectrogram is its shape <<bins, frames>>; a batch of slices is       *)
(* <<count, bins, width>>.  A process that is killed loses its memory;     *)
(* the file system is kept from one process to the next.                   *)
(***************************************************************************)
EXTENDS Integers, Sequences, FiniteSets, TLC

\* ---------------------------------------------------------------- bounds
MaxEpochs == 2
MaxEpochSize == 3
MaxRuns == 3
MaxFrames == 5
Bins == 2

\* ------------------------------------------------------ program constants
StartLrExp == 0 - 9
EndLrExp == 0
BestInit == 1000000000
StopFactor == 100
epoch_offset == 0

GeneratorLayers == {"g_down", "g_up"}
DiscriminatorLayers == {"d_conv", "d_out"}
exec_mode == {"train", "test"}
LossNames == {"gen_mae", "gen_loss", "disc_loss"}

\* The three tracked losses of one batch, as the loss functions return them.
TrainLossSamples ==
    { [gen_mae |-> 1, gen_loss |-> 2, disc_loss |-> 3],
      [gen_mae |-> 1000, gen_loss |-> 500000, disc_loss |-> 7] }

FindLrLossSamples ==
    { [gen_mae |-> 1, gen_loss |-> 1, disc_loss |-> 1],
      [gen_mae |-> 100, gen_loss |-> 1, disc_loss |-> 1],
      [gen_mae |-> 1, gen_loss |-> 101, disc_loss |-> 1],
      [gen_mae |-> 99, gen_loss |-> 99, disc_loss |-> 99],
      [gen_mae |-> 1, gen_loss |-> 1, disc_loss |-> 0],
      [gen_mae |-> 2000000000, gen_loss |-> 1, disc_loss |-> 1] }

VARIABLES
    program,        \* which entry point this process runs
    pc,             \* position of the process
    run,            \* number of processes started so far
    args,           \* parsed command line
    fx,             \* side effects performed by this process
    ckpt_dir,       \* os.path.isdir(checkpoint_prefix)
    ckpt_files,     \* weight files of the checkpoint directory, by path
    history_csv,    \* rows of history.csv (<<>> when absent)
    outputs,        \* epoch output directories, by name
    plots,          \* LRFinder plots written
    log_dir,        \* gtzan: logs/<exec_time> exists
    test_frames,    \* frames of the test audio's spectrogram
    train_losses,   \* losses the batches of the training data can give
    dataset_len,    \* data['training'].__len__()
    generator,      \* weights held in memory
    discriminator,
    gen_iters,      \* generator_optimizer.iterations
    disc_iters,     \* discriminator_optimizer.iterations
    epoch_size,
    epoch,
    i,
    totals,         \* gen_mae_total, gen_loss_total, disc_loss_total
    lists,          \* gen_mae_list, gen_loss_list, disc_loss_list
    epoch_logs,     \* per epoch of this process: batches seen, loss sums
    phase,          \* shape of the phase tensor
    test_input,     \* shape of the sliced test input
    audio_mag,      \* shape of the magnitude of the last audio written
    gen_saves,      \* generator.save_weights calls of this process
    disc_saves,     \* discriminator.save_weights calls of this process
    shuffles,       \* on_epoch_end calls of this process
    lr,             \* learning rate of both optimizers in find_lr
    lr_mult,
    lrs,
    losses,
    best_losses,
    applied_lrs     \* learning rate in force when each batch was applied

diskVars == << ckpt_dir, ckpt_files, history_csv, outputs, plots, log_dir,
               test_frames, train_losses, dataset_len >>
trainVars == << generator, discriminator, gen_iters, disc_iters, epoch_size,
                epoch, i, totals, lists, epoch_logs, phase, test_input,
                audio_mag, gen_saves, disc_saves, shuffles >>
findVars == << lr, lr_mult, lrs, losses, best_losses, applied_lrs >>
vars == << program, pc, run, args, fx, diskVars, trainVars, findVars >>

\* ------------------------------------------------------------ pure helpers
RECURSIVE GCD(_, _)
GCD(a, b) == IF b = 0 THEN a ELSE GCD(b, a % b)

Min(S) == CHOOSE x \in S : \A y \in S : x <= y

CeilDiv(a, b) == (a + b - 1) \div b

NoWeights == << >>
NoShape == << >>
ZeroTotals == [gen_mae |-> 0, gen_loss |-> 0, disc_loss |-> 0]
EmptyLists == [gen_mae |-> << >>, gen_loss |-> << >>, disc_loss |-> << >>]

\* the record kept of an epoch's batches: their number and their loss sums
NoBatches == [batches |-> 0, gen_mae |-> 0, gen_loss |-> 0, disc_loss |-> 0]
Logged(log, s) ==
    [batches |-> log.batches + 1, gen_mae |-> log.gen_mae + s.gen_mae,
     gen_loss |-> log.gen_loss + s.gen_loss,
     disc_loss |-> log.disc_loss + s.disc_loss]

\* ------------------------------------------------- operators of the trainer
\* total / epoch_size (true division), as an exact fraction
Mean(total, n) ==
    LET g == GCD(total, n) IN << total \div g, n \div g >>

\* str(n).zfill(3)
Zfill3(n) == << "001", "002", "003", "004", "005", "006", "007", "008" >>[n]

generator_weights == << "generator.h5" >>
discriminator_weights_pasted == << "generator.h5" >>
discriminator_weights == << "discriminator.h5" >>

\* Generator() / Discriminator(): freshly initialised layers
NewModel(layers) == [l \in layers |-> 0]

\* optimizer.apply_gradients(zip(gradients, model.trainable_variables))
apply_gradients(model) == [l \in DOMAIN model |-> model[l] + 1]

load_weights_skipped(model, path, files) == model

\* if os.path.isfile(path): model.load_weights(path, by_name=True)
load_weights(model, path, files) ==
    IF path \in DOMAIN files
    THEN [l \in DOMAIN model |->
            IF l \in DOMAIN files[path].w THEN files[path].w[l] ELSE model[l]]
    ELSE model

save_weights_keyed(files, path, model, r, e) ==
    [p \in DOMAIN files \cup {Append(path, Zfill3(e))} |->
        IF p = Append(path, Zfill3(e))
        THEN [w |-> model, run |-> r, epoch |-> e] ELSE files[p]]

\* model.save_weights(path): the file at path is replaced
save_weights(files, path, model, r, e) ==
    [p \in DOMAIN files \cup {path} |->
        IF p = path THEN [w |-> model, run |-> r, epoch |-> e] ELSE files[p]]

MoreBatchesShort(k, n) == k < n - 1

\* for i in range(epoch_size)
MoreBatches(k, n) == k < n

\* for epoch in range(epochs)
MoreEpochs(e, n) == e < n

NewTotalsKept(old) == old

\* gen_mae_total, gen_loss_total, disc_loss_total = 0, 0, 0
NewTotals(old) == ZeroTotals

\* x_total += x
AddLosses(t, s) ==
    [gen_mae |-> t.gen_mae + s.gen_mae, gen_loss |-> t.gen_loss + s.gen_loss,
     disc_loss |-> t.disc_loss + s.disc_loss]

\* x_list.append(x_total / epoch_size)
AppendMeans(l, t, n) ==
    [gen_mae |-> Append(l.gen_mae, Mean(t.gen_mae, n)),
     gen_loss |-> Append(l.gen_loss, Mean(t.gen_loss, n)),
     disc_loss |-> Append(l.disc_loss, Mean(t.disc_loss, n))]

\* pd.DataFrame({...}) as write_csv stores it: one row per list position;
\* the *_val totals are never added to, so their means are 0
DataFrame(l) ==
    [k \in 1..Len(l.gen_mae) |->
        [gen_mae |-> l.gen_mae[k], gen_mae_val |-> Mean(0, 1),
         gen_loss |-> l.gen_loss[k], gen_loss_val |-> Mean(0, 1),
         disc_loss |-> l.disc_loss[k], disc_loss_val |-> Mean(0, 1)]]

\* forward_transform: magnitude and phase have the spectrogram's shape
forward_transform(frames) == << Bins, frames >>

\* slice_magnitude: windows of slice_size frames, the last one padded
slice_magnitude(mag, slice_size) ==
    << CeilDiv(mag[2], slice_size), mag[1], slice_size >>

\* the generator maps a batch of slices to a batch of the same shape
Predict(slices) == slices

\* join_magnitude_slices: the windows side by side, cut to target_shape
join_magnitude_slices(slices, target_shape) ==
    LET rows == slices[2]
        cols == slices[1] * slices[3]
    IN  << IF rows < target_shape[1] THEN rows ELSE target_shape[1],
           IF cols < target_shape[2] THEN cols ELSE target_shape[2] >>

generate_audio_uncut(prediction, ph) ==
    join_magnitude_slices(prediction,
                          << prediction[2], prediction[1] * prediction[3] >>)

\* generate_audio: the shape of the magnitude handed to inverse_transform
generate_audio(prediction, ph) == join_magnitude_slices(prediction, ph)

\* ----------------------------------------------------- operators of find_lr
\* if best_losses[x] > x: best_losses[x] = x
UpdateBest(best, s) ==
    [n \in LossNames |-> IF best[n] > s[n] THEN s[n] ELSE best[n]]

\* x >= 100 * best_losses[x], for integers (the product would leave 32 bits)
Exceeds(x, best) == x \div StopFactor >= best

ShouldStopStrict(s, best) ==
    \/ (s.gen_mae - 1) \div StopFactor >= best.gen_mae
    \/ (s.gen_loss - 1) \div StopFactor >= best.gen_loss
    \/ (s.disc_loss - 1) \div StopFactor >= best.disc_loss

\* the condition of the break
ShouldStop(s, best) ==
    \/ Exceeds(s.gen_mae, best.gen_mae)
    \/ Exceeds(s.gen_loss, best.gen_loss)
    \/ Exceeds(s.disc_loss, best.disc_loss)

\* start_lr, in the log domain scaled by epoch_size
StartLr(n) == StartLrExp * n

LrMultInverted(n) == StartLrExp - EndLrExp

\* lr_mult = (end_lr / start_lr) ** (1 / epoch_size), same scale
LrMult(n) == EndLrExp - StartLrExp

\* ------------------------------------------------ operators of the two CLIs
\* argparse: required=True
RequiredPresent(a) == a.dataset_path /\ a.origin /\ a.target

\* args.type not in exec_mode
InvalidType(a) == a.type \notin exec_mode

DirectoryNeverMissing(a) == FALSE

\* not args.directory
DirectoryMissing(a) == ~a.directory

\* not args.model
ModelMissing(a) == ~a.model

\* not args.song
SongMissing(a) == ~a.song

TrainingArgs ==
    [dataset_path : BOOLEAN, origin : BOOLEAN, target : BOOLEAN,
     findlr : BOOLEAN, epochs : 0..MaxEpochs,
     type : {"-"}, directory : {FALSE}, model : {FALSE}, song : {FALSE}]

GtzanArgs ==
    [dataset_path : {FALSE}, origin : {FALSE}, target : {FALSE},
     findlr : {FALSE}, epochs : {0},
     type : {"train", "test", "other"}, directory : BOOLEAN,
     model : BOOLEAN, song : BOOLEAN]

ArgsOf(prog) == IF prog = "training" THEN TrainingArgs ELSE GtzanArgs
EntryOf(prog) == IF prog = "training" THEN "main" ELSE "gtzan_main"

\* ------------------------------------------------------------------- Init
FreshMemory ==
    /\ fx = {}
    /\ generator = NoWeights /\ discriminator = NoWeights
    /\ gen_iters = 0 /\ disc_iters = 0
    /\ epoch_size = 0 /\ epoch = 0 /\ i = 0
    /\ totals = ZeroTotals /\ lists = EmptyLists /\ epoch_logs = << >>
    /\ phase = NoShape /\ test_input = NoShape /\ audio_mag = NoShape
    /\ gen_saves = 0 /\ disc_saves = 0 /\ shuffles = 0
    /\ lr = 0 /\ lr_mult = 0 /\ lrs = << >> /\ losses = EmptyLists
    /\ best_losses = [n \in LossNames |-> BestInit]
    /\ applied_lrs = << >>

Init ==
    /\ program \in {"training", "gtzan"}
    /\ pc = EntryOf(program)
    /\ run = 1
    /\ args \in ArgsOf(program)
    /\ ckpt_dir = FALSE
    /\ ckpt_files = << >>
    /\ history_csv = << >>
    /\ outputs = {}
    /\ plots = {}
    /\ log_dir \in IF program = "gtzan" THEN BOOLEAN ELSE {FALSE}
    /\ test_frames \in IF program = "training" THEN 1..MaxFrames ELSE {1}
    /\ train_losses = TrainLossSamples
    /\ dataset_len \in IF program = "training" THEN 1..MaxEpochSize ELSE {1}
    /\ FreshMemory

\* the memory of a process that has not started or is gone
ForgetMemory ==
    /\ fx' = {}
    /\ generator' = NoWeights /\ discriminator' = NoWeights
    /\ gen_iters' = 0 /\ disc_iters' = 0
    /\ epoch_size' = 0 /\ epoch' = 0 /\ i' = 0
    /\ totals' = ZeroTotals /\ lists' = EmptyLists /\ epoch_logs' = << >>
    /\ phase' = NoShape /\ test_input' = NoShape /\ audio_mag' = NoShape
    /\ gen_saves' = 0 /\ disc_saves' = 0 /\ shuffles' = 0
    /\ lr' = 0 /\ lr_mult' = 0 /\ lrs' = << >> /\ losses' = EmptyLists
    /\ best_losses' = [n \in LossNames |-> BestInit]
    /\ applied_lrs' = << >>

\* ------------------------------------------------- training.py: __main__
\* ap.parse_args(): a missing required argument ends the process
ParseArgs ==
    /\ pc = "main"
    /\ pc' = IF RequiredPresent(args) THEN "setup" ELSE "usage_error"
    /\ UNCHANGED << program, run, args, fx, diskVars, trainVars, findVars >>

\* the environment, the two DataGenerators, and the choice of the mode
MainDispatch ==
    /\ pc = "setup"
    /\ fx' = fx \cup {"data_built"}
    /\ pc' = IF args.findlr THEN "findlr_init" ELSE "train_init"
    /\ UNCHANGED << program, run, args, diskVars, trainVars, findVars >>

\* --------------------------------------------------------------- train
\* the models, the optimizers, the checkpoint directory and the restore
TrainInit ==
    /\ pc = "train_init"
    /\ IF ~ckpt_dir
       THEN /\ ckpt_dir' = TRUE
            /\ generator' = NewModel(GeneratorLayers)
            /\ discriminator' = NewModel(DiscriminatorLayers)
            /\ fx' = fx \cup {"model_built", "ckpt_dir_made"}
       ELSE /\ ckpt_dir' = ckpt_dir
            /\ generator' = load_weights(NewModel(GeneratorLayers),
                                         generator_weights, ckpt_files)
            /\ discriminator' = load_weights(NewModel(DiscriminatorLayers),
                                             discriminator_weights, ckpt_files)
            /\ fx' = fx \cup {"model_built"}
    /\ gen_iters' = 0
    /\ disc_iters' = 0
    /\ epoch_size' = dataset_len
    /\ pc' = "precompute"
    /\ UNCHANGED << program, run, args, ckpt_files, history_csv, outputs,
                    plots, log_dir,
                    test_frames, train_losses, dataset_len, epoch, i, totals,
                    lists,
                    epoch_logs, phase, test_input, audio_mag, gen_saves,
                    disc_saves, shuffles, findVars >>

\* the test input and target, and the empty history lists
TrainPrecompute ==
    /\ pc = "precompute"
    /\ LET mag_input == forward_transform(test_frames) IN
         /\ phase' = forward_transform(test_frames)
         /\ test_input' = slice_magnitude(mag_input, mag_input[1])
    /\ lists' = EmptyLists
    /\ epoch' = 0
    /\ pc' = "epoch"
    /\ UNCHANGED << program, run, args, fx, diskVars, generator,
                    discriminator, gen_iters, disc_iters, epoch_size, i,
                    totals, epoch_logs, audio_mag, gen_saves, disc_saves,
                    shuffles, findVars >>

\* for epoch in range(epochs): the totals start at zero
EpochBegin ==
    /\ pc = "epoch"
    /\ IF MoreEpochs(epoch, args.epochs)
       THEN /\ totals' = NewTotals(totals)
            /\ i' = 0
            /\ epoch_logs' = Append(epoch_logs, NoBatches)
            /\ pc' = IF MoreBatches(0, epoch_size) THEN "batch" ELSE "history"
       ELSE /\ pc' = "done"
            /\ UNCHANGED << totals, i, epoch_logs >>
    /\ UNCHANGED << program, run, args, fx, diskVars, generator,
                    discriminator, gen_iters, disc_iters, epoch_size, epoch,
                    lists, phase, test_input, audio_mag, gen_saves,
                    disc_saves, shuffles, findVars >>

TrainBatchRefined ==
    /\ pc = "batch"
    /\ \E s \in train_losses :
         /\ totals' = AddLosses(totals, s)
         /\ epoch_logs' = [epoch_logs EXCEPT ![Len(epoch_logs)] = Logged(@, s)]
    /\ generator' = apply_gradients(generator)
    /\ gen_iters' = gen_iters + 1
    /\ discriminator' = apply_gradients(apply_gradients(discriminator))
    /\ disc_iters' = disc_iters + 2
    /\ i' = i + 1
    /\ pc' = IF MoreBatches(i + 1, epoch_size) THEN "batch" ELSE "history"
    /\ UNCHANGED << program, run, args, fx, diskVars, epoch_size, epoch,
                    lists, phase, test_input, audio_mag, gen_saves,
                    disc_saves, shuffles, findVars >>

\* one batch: both losses under the two tapes, then one update of each net
TrainBatch ==
    /\ pc = "batch"
    /\ \E s \in train_losses :
         /\ totals' = AddLosses(totals, s)
         /\ epoch_logs' = [epoch_logs EXCEPT ![Len(epoch_logs)] = Logged(@, s)]
    /\ generator' = apply_gradients(generator)
    /\ gen_iters' = gen_iters + 1
    /\ discriminator' = apply_gradients(discriminator)
    /\ disc_iters' = disc_iters + 1
    /\ i' = i + 1
    /\ pc' = IF MoreBatches(i + 1, epoch_size) THEN "batch" ELSE "history"
    /\ UNCHANGED << program, run, args, fx, diskVars, epoch_size, epoch,
                    lists, phase, test_input, audio_mag, gen_saves,
                    disc_saves, shuffles, findVars >>

WriteHistoryUnwritten ==
    /\ pc = "history"
    /\ lists' = AppendMeans(lists, totals, epoch_size)
    /\ pc' = "output"
    /\ UNCHANGED << program, run, args, fx, diskVars, generator,
                    discriminator, gen_iters, disc_iters, epoch_size, epoch,
                    i, totals, epoch_logs, phase, test_input, audio_mag,
                    gen_saves, disc_saves, shuffles, findVars >>

\* the means of the epoch are appended and history.csv is rewritten
WriteHistory ==
    /\ pc = "history"
    /\ lists' = AppendMeans(lists, totals, epoch_size)
    /\ history_csv' = DataFrame(lists')
    /\ fx' = fx \cup {"history_written"}
    /\ pc' = "output"
    /\ UNCHANGED << program, run, args, ckpt_dir, ckpt_files, outputs, plots,
                    log_dir,
                    test_frames, train_losses, dataset_len, generator,
                    discriminator,
                    gen_iters, disc_iters, epoch_size, epoch, i, totals,
                    epoch_logs, phase, test_input, audio_mag, gen_saves,
                    disc_saves, shuffles, findVars >>

\* the epoch's directory, the spectrogram images and the audio
EpochOutput ==
    /\ pc = "output"
    /\ outputs' = outputs \cup {Zfill3((epoch + 1) + epoch_offset)}
    /\ audio_mag' = generate_audio(Predict(test_input), phase)
    /\ fx' = fx \cup {"output_written"}
    /\ pc' = "save_gen"
    /\ UNCHANGED << program, run, args, ckpt_dir, ckpt_files, history_csv,
                    plots, log_dir,
                    test_frames, train_losses, dataset_len, generator,
                    discriminator,
                    gen_iters, disc_iters, epoch_size, epoch, i, totals,
                    lists, epoch_logs, phase, test_input, gen_saves,
                    disc_saves, shuffles, findVars >>

\* generator.save_weights(generator_weights)
SaveGenerator ==
    /\ pc = "save_gen"
    /\ ckpt_files' = save_weights(ckpt_files, generator_weights, generator,
                                  run, epoch + 1)
    /\ gen_saves' = gen_saves + 1
    /\ fx' = fx \cup {"generator_saved"}
    /\ pc' = "save_disc"
    /\ UNCHANGED << program, run, args, ckpt_dir, history_csv, outputs,
                    plots, log_dir,
                    test_frames, train_losses, dataset_len, generator,
                    discriminator,
                    gen_iters, disc_iters, epoch_size, epoch, i, totals,
                    lists, epoch_logs, phase, test_input, audio_mag,
                    disc_saves, shuffles, findVars >>

\* discriminator.save_weights(discriminator_weights)
SaveDiscriminator ==
    /\ pc = "save_disc"
    /\ ckpt_files' = save_weights(ckpt_files, discriminator_weights,
                                  discriminator, run, epoch + 1)
    /\ disc_saves' = disc_saves + 1
    /\ fx' = fx \cup {"discriminator_saved"}
    /\ pc' = "epoch_end"
    /\ UNCHANGED << program, run, args, ckpt_dir, history_csv, outputs,
                    plots, log_dir,
                    test_frames, train_losses, dataset_len, generator,
                    discriminator,
                    gen_iters, disc_iters, epoch_size, epoch, i, totals,
                    lists, epoch_logs, phase, test_input, audio_mag,
                    gen_saves, shuffles, findVars >>

\* data['training'].on_epoch_end(), and on to the next epoch
OnEpochEnd ==
    /\ pc = "epoch_end"
    /\ shuffles' = shuffles + 1
    /\ epoch' = epoch + 1
    /\ pc' = "epoch"
    /\ UNCHANGED << program, run, args, fx, diskVars, generator,
                    discriminator, gen_iters, disc_iters, epoch_size, i,
                    totals, lists, epoch_logs, phase, test_input, audio_mag,
                    gen_saves, disc_saves, findVars >>

\* -------------------------------------------------------------- find_lr
\* the models, the optimizers at start_lr, the directory, the empty lists
FindLrInit ==
    /\ pc = "findlr_init"
    /\ generator' = NewModel(GeneratorLayers)
    /\ discriminator' = NewModel(DiscriminatorLayers)
    /\ gen_iters' = 0
    /\ disc_iters' = 0
    /\ ckpt_dir' = TRUE
    /\ fx' = fx \cup {"model_built"}
               \cup (IF ckpt_dir THEN {} ELSE {"ckpt_dir_made"})
    /\ epoch_size' = dataset_len
    /\ lr' = StartLr(dataset_len)
    /\ lr_mult' = LrMult(dataset_len)
    /\ lrs' = << >>
    /\ applied_lrs' = << >>
    /\ losses' = EmptyLists
    /\ best_losses' = [n \in LossNames |-> BestInit]
    /\ i' = 0
    /\ pc' = IF MoreBatches(0, dataset_len) THEN "findlr_batch"
                                            ELSE "findlr_plot"
    /\ UNCHANGED << program, run, args, ckpt_files, history_csv, outputs,
                    plots, log_dir,
                    test_frames, train_losses, dataset_len, epoch, totals,
                    lists,
                    epoch_logs, phase, test_input, audio_mag, gen_saves,
                    disc_saves, shuffles >>

\* one batch: the update at the current rate, the records, the next rate,
\* the best losses and the break
FindLrBatch ==
    /\ pc = "findlr_batch"
    /\ generator' = apply_gradients(generator)
    /\ gen_iters' = gen_iters + 1
    /\ discriminator' = apply_gradients(discriminator)
    /\ disc_iters' = disc_iters + 1
    /\ applied_lrs' = Append(applied_lrs, lr)
    /\ lrs' = Append(lrs, lr)
    /\ lr' = lr + lr_mult
    /\ i' = i + 1
    /\ \E s \in FindLrLossSamples :
         /\ losses' = [n \in LossNames |-> Append(losses[n], s[n])]
         /\ best_losses' = UpdateBest(best_losses, s)
         /\ pc' = IF ShouldStop(s, best_losses')
                     \/ ~MoreBatches(i + 1, epoch_size)
                  THEN "findlr_plot" ELSE "findlr_batch"
    /\ UNCHANGED << program, run, args, fx, diskVars, epoch_size, epoch,
                    totals, lists, epoch_logs, phase, test_input, audio_mag,
                    gen_saves, disc_saves, shuffles, lr_mult >>

\* the three plots and the printed best losses
FindLrPlot ==
    /\ pc = "findlr_plot"
    /\ plots' = plots \cup {"LRFinder_gen_mae.tiff", "LRFinder_gen_loss.tiff",
                            "LRFinder_disc_loss.tiff"}
    /\ fx' = fx \cup {"plots_written"}
    /\ pc' = "findlr_done"
    /\ UNCHANGED << program, run, args, ckpt_dir, ckpt_files, history_csv,
                    outputs, log_dir,
                    test_frames, train_losses, dataset_len, trainVars,
                    findVars >>

\* ------------------------------------------------------------ gtzan main
\* if args.type not in exec_mode: raise ValueError
GtzanCheckType ==
    /\ pc = "gtzan_main"
    /\ pc' = IF InvalidType(args) THEN "raised"
             ELSE IF args.type = "train" THEN "gtzan_directory"
             ELSE "gtzan_model"
    /\ UNCHANGED << program, run, args, fx, diskVars, trainVars, findVars >>

\* train: if not args.directory: raise ValueError
GtzanCheckDirectory ==
    /\ pc = "gtzan_directory"
    /\ pc' = IF DirectoryMissing(args) THEN "raised" ELSE "gtzan_logs"
    /\ UNCHANGED << program, run, args, fx, diskVars, trainVars, findVars >>

\* train: os.mkdir('logs/<exec_time>'), FileExistsError passed over
GtzanMakeLogs ==
    /\ pc = "gtzan_logs"
    /\ log_dir' = TRUE
    /\ fx' = fx \cup (IF log_dir THEN {} ELSE {"log_dir_made"})
    /\ pc' = "gtzan_fit"
    /\ UNCHANGED << program, run, args, ckpt_dir, ckpt_files, history_csv,
                    outputs, plots,
                    test_frames, train_losses, dataset_len, trainVars,
                    findVars >>

\* train: the data, the histogram, the model, the fit and its plots
GtzanFit ==
    /\ pc = "gtzan_fit"
    /\ fx' = fx \cup {"data_read", "model_built", "file_written"}
    /\ pc' = "gtzan_save"
    /\ UNCHANGED << program, run, args, diskVars, trainVars, findVars >>

\* train: cnn.save('models/<exec_time>.h5')
GtzanSave ==
    /\ pc = "gtzan_save"
    /\ fx' = fx \cup {"model_saved"}
    /\ pc' = "gtzan_done"
    /\ UNCHANGED << program, run, args, diskVars, trainVars, findVars >>

\* test: if not args.model: raise ValueError
GtzanCheckModel ==
    /\ pc = "gtzan_model"
    /\ pc' = IF ModelMissing(args) THEN "raised" ELSE "gtzan_song"
    /\ UNCHANGED << program, run, args, fx, diskVars, trainVars, findVars >>

\* test: if not args.song: raise ValueError
GtzanCheckSong ==
    /\ pc = "gtzan_song"
    /\ pc' = IF SongMissing(args) THEN "raised" ELSE "gtzan_load"
    /\ UNCHANGED << program, run, args, fx, diskVars, trainVars, findVars >>

\* test: load_model(args.model) and librosa.load(args.song)
GtzanLoad ==
    /\ pc = "gtzan_load"
    /\ fx' = fx \cup {"model_loaded", "data_read"}
    /\ pc' = "gtzan_done"
    /\ UNCHANGED << program, run, args, diskVars, trainVars, findVars >>

\* ------------------------------------------------------------ environment
Ended == {"done", "findlr_done", "gtzan_done", "usage_error", "raised",
          "killed"}

\* the process is interrupted from outside: its memory is gone
Interrupt ==
    /\ pc \notin Ended
    /\ pc' = "killed"
    /\ ForgetMemory
    /\ UNCHANGED << program, run, args, diskVars >>

Step ==
    \/ ParseArgs \/ MainDispatch
    \/ TrainInit \/ TrainPrecompute \/ EpochBegin \/ TrainBatch
    \/ WriteHistory \/ EpochOutput \/ SaveGenerator \/ SaveDiscriminator
    \/ OnEpochEnd
    \/ FindLrInit \/ FindLrBatch \/ FindLrPlot
    \/ GtzanCheckType \/ GtzanCheckDirectory \/ GtzanMakeLogs \/ GtzanFit
    \/ GtzanSave \/ GtzanCheckModel \/ GtzanCheckSong \/ GtzanLoad

Next == Step \/ Interrupt

\* one process of either program, started on a fresh file system
Spec == Init /\ [][Next]_vars

\* a process that is not interrupted keeps running
FairSpec == Spec /\ WF_vars(Step)

\* --------------------------------------- training resumed run after run
\* train is started on a fresh file system and, each time it has ended or
\* has been interrupted, started again on what it left there, with any
\* --epochs.  The data set gives the same losses for every batch.
ResumeInit ==
    /\ program = "training"
    /\ pc = EntryOf(program)
    /\ run = 1
    /\ args \in {a \in TrainingArgs : RequiredPresent(a) /\ ~a.findlr}
    /\ ckpt_dir = FALSE
    /\ ckpt_files = << >>
    /\ history_csv = << >>
    /\ outputs = {}
    /\ plots = {}
    /\ log_dir = FALSE
    /\ test_frames = MaxFrames
    /\ train_losses \in {{s} : s \in TrainLossSamples}
    /\ dataset_len \in 1..MaxEpochSize
    /\ FreshMemory

NewRun ==
    /\ pc \in Ended
    /\ run < MaxRuns
    /\ run' = run + 1
    /\ \E e \in 0..MaxEpochs : args' = [args EXCEPT !.epochs = e]
    /\ pc' = EntryOf(program)
    /\ ForgetMemory
    /\ UNCHANGED << program, diskVars >>

TrainStep ==
    \/ ParseArgs \/ MainDispatch
    \/ TrainInit \/ TrainPrecompute \/ EpochBegin \/ TrainBatch
    \/ WriteHistory \/ EpochOutput \/ SaveGenerator \/ SaveDiscriminator
    \/ OnEpochEnd

ResumeNext == TrainStep \/ Interrupt \/ NewRun

ResumeSpec == ResumeInit /\ [][ResumeNext]_vars

\* ======================================================== the properties
TrainLoopPcs == {"epoch", "batch", "history", "output", "save_gen",
                 "save_disc", "epoch_end", "done"}
FindLrPcs == {"findlr_batch", "findlr_plot", "findlr_done"}

\* batches of this process that train has completed
BatchesDone ==
    IF pc \in {"epoch", "done"} THEN epoch * epoch_size
    ELSE epoch * epoch_size + i

HasGen == generator_weights \in DOMAIN ckpt_files
HasDisc == discriminator_weights \in DOMAIN ckpt_files
Stamp(p) == << ckpt_files[p].run, ckpt_files[p].epoch >>

\* C1 as stated: each batch is a combined step followed by a second,
\* discriminator-only step, so after n batches the generator has been
\* updated n times and the discriminator 2n times.
C1_RefinementStep ==
    pc \in TrainLoopPcs =>
        /\ gen_iters = BatchesDone
        /\ disc_iters = 2 * BatchesDone

\* C1 as amended: each batch is one combined step that updates the
\* generator once and the discriminator once; there is no second
\* discriminator step, so after n batches each optimizer has stepped n times.
C1_OneUpdateEach ==
    pc \in TrainLoopPcs =>
        /\ gen_iters = BatchesDone
        /\ disc_iters = BatchesDone

C1_Witness ==
    pc = "batch" /\ i = 1 /\ epoch = 1 /\ disc_iters = epoch_size + 1

\* C2 as stated: in every state the two weight files are both absent or
\* both present from the same epoch, with the optimizer state beside them.
C2_AtomicCheckpoint ==
    /\ HasGen <=> HasDisc
    /\ (HasGen /\ HasDisc) =>
          /\ Stamp(generator_weights) = Stamp(discriminator_weights)
          /\ \E p \in DOMAIN ckpt_files :
                p \notin {generator_weights, discriminator_weights}

\* C2 as amended: a save is two writes, generator first, and no optimizer
\* state is stored.  Once both writes of an epoch are done both files are
\* of that epoch; between the two writes, and from a run interrupted there
\* onwards, the generator file is newer than the discriminator file.
C2_TwoWrites ==
    /\ DOMAIN ckpt_files \subseteq {generator_weights, discriminator_weights}
    /\ HasDisc => HasGen
    /\ (HasGen /\ HasDisc) =>
          LET g == ckpt_files[generator_weights]
              d == ckpt_files[discriminator_weights]
          IN  \/ g.run > d.run
              \/ g.run = d.run /\ g.epoch - d.epoch \in {0, 1}
    /\ pc = "save_disc" =>
          /\ HasGen
          /\ Stamp(generator_weights) = << run, epoch + 1 >>
          /\ HasDisc =>
               Stamp(discriminator_weights) # Stamp(generator_weights)
    /\ pc = "epoch_end" =>
          /\ HasGen /\ HasDisc
          /\ Stamp(generator_weights) = << run, epoch + 1 >>
          /\ Stamp(discriminator_weights) = << run, epoch + 1 >>
    /\ (pc \in TrainLoopPcs \ {"save_disc", "epoch_end"} /\ gen_saves >= 1) =>
          /\ HasGen /\ HasDisc
          /\ Stamp(generator_weights) = << run, gen_saves >>
          /\ Stamp(discriminator_weights) = << run, gen_saves >>

C2_Witness ==
    /\ pc = "save_disc" /\ HasDisc
    /\ ckpt_files[generator_weights].epoch = 2
    /\ ckpt_files[discriminator_weights].epoch = 1
    /\ ckpt_files[discriminator_weights].run = run

\* C3 as stated, for a maximum of two or more: after epoch e completes a
\* snapshot of epoch e is kept beside the snapshot of epoch e - 1.
C3_KeyedByEpoch ==
    pc = "epoch_end" =>
        \A e \in {epoch, epoch + 1} \ {0} :
            \E p \in DOMAIN ckpt_files :
                ckpt_files[p].run = run /\ ckpt_files[p].epoch = e

\* C3 as amended: the weights go to two fixed paths that carry no epoch
\* number, and each epoch overwrites them: after epoch e completes the
\* directory holds one snapshot per network, of epoch e, and none earlier.
C3_LatestOnly ==
    /\ DOMAIN ckpt_files \subseteq {generator_weights, discriminator_weights}
    /\ Cardinality(DOMAIN ckpt_files) <= 2
    /\ pc = "epoch_end" =>
          /\ DOMAIN ckpt_files = {generator_weights, discriminator_weights}
          /\ \A p \in DOMAIN ckpt_files : Stamp(p) = << run, epoch + 1 >>

C3_Witness ==
    /\ pc = "epoch_end" /\ epoch >= 1
    /\ DOMAIN ckpt_files = {generator_weights, discriminator_weights}

\* C4: what a save writes is what the process holds, and what a run holds
\* after its restore step is, for both networks, what the files hold.
C4_RestoreIsIdentity ==
    /\ pc = "save_disc" =>
          HasGen /\ ckpt_files[generator_weights].w = generator
    /\ pc = "epoch_end" =>
          /\ HasGen /\ ckpt_files[generator_weights].w = generator
          /\ HasDisc /\ ckpt_files[discriminator_weights].w = discriminator
    /\ pc = "precompute" =>
          /\ HasGen => generator = ckpt_files[generator_weights].w
          /\ HasDisc => discriminator = ckpt_files[discriminator_weights].w

C4_Witness ==
    /\ run >= 2 /\ pc = "precompute" /\ HasGen /\ HasDisc
    /\ generator["g_up"] >= 1
    /\ discriminator["d_out"] >= 1

\* the smallest of 1e9 and the values of a loss up to batch k
SeenBest(n, k) == Min({BestInit} \cup {losses[n][j] : j \in 1..k})

\* at batch k a loss is at least 100 times its best so far
Trigger(k) ==
    \E n \in LossNames : losses[n][k] \div StopFactor >= SeenBest(n, k)

\* at batch k a loss exceeds 100 times the smallest value seen so far
TriggerStrict(k) ==
    \E n \in LossNames :
        (losses[n][k] - 1) \div StopFactor
            >= Min({losses[n][j] : j \in 1..k})

\* C5 as stated: find_lr ends short of epoch_size batches exactly when some
\* batch had a loss exceeding 100 times its best, and at the first such.
C5_ExceedsStops ==
    pc = "findlr_plot" =>
        LET n == Len(lrs) IN
        /\ (n < epoch_size) <=> (\E k \in 1..n : TriggerStrict(k))
        /\ \A k \in 1..(n - 1) : ~TriggerStrict(k)

\* C5 as amended: find_lr stops at the first batch at which a tracked loss
\* is at least 100 times its best so far (the smallest of 1e9 and the values
\* up to and including that batch, so a loss of 0 always stops it); it ends
\* short of epoch_size batches exactly when that batch is not the last.
C5_StopsAtFirst ==
    pc \in FindLrPcs =>
        LET n == Len(lrs) IN
        /\ n <= epoch_size
        /\ \A k \in 1..(n - 1) : ~Trigger(k)
        /\ pc = "findlr_batch" => (n < epoch_size /\ (n >= 1 => ~Trigger(n)))
        /\ pc # "findlr_batch" => (n >= 1 /\ (n = epoch_size \/ Trigger(n)))

C5_Witness ==
    /\ pc = "findlr_plot" /\ epoch_size = 3
    /\ losses.gen_mae = << 1, 100 >>
    /\ losses.gen_loss = << 1, 1 >>
    /\ losses.disc_loss = << 1, 1 >>

\* C6: the recorded rates start at start_lr, each next one is the previous
\* times lr_mult > 1 (so they increase strictly), every list has one entry
\* per batch, and the i-th rate is the one the i-th batch was applied with.
C6_LrsIncrease ==
    pc \in FindLrPcs =>
        /\ lr_mult > 0
        /\ \A n \in LossNames : Len(losses[n]) = Len(lrs)
        /\ Len(lrs) >= 1 => lrs[1] = StartLrExp * epoch_size
        /\ \A k \in 1..(Len(lrs) - 1) :
              /\ lrs[k + 1] = lrs[k] + (EndLrExp - StartLrExp)
              /\ lrs[k + 1] > lrs[k]
        /\ applied_lrs = lrs

C6_Witness ==
    pc = "findlr_plot" /\ Len(lrs) = 2 /\ Len(lrs) < epoch_size
        /\ Len(losses.disc_loss) = 2

GtzanInvalid(a) ==
    \/ a.type \notin {"train", "test"}
    \/ a.type = "train" /\ ~a.directory
    \/ a.type = "test" /\ (~a.model \/ ~a.song)

\* C9: an invocation that lacks a required argument is rejected before any
\* work: it never gets past validation and performs no side effect, and
\* only such invocations are rejected.
C9_RejectsBeforeWork ==
    /\ (program = "training" /\ ~(args.dataset_path /\ args.origin
                                   /\ args.target)) =>
          (pc \in {"main", "usage_error", "killed"} /\ fx = {})
    /\ (program = "gtzan" /\ GtzanInvalid(args)) =>
          /\ pc \in {"gtzan_main", "gtzan_directory", "gtzan_model",
                     "gtzan_song", "raised", "killed"}
          /\ fx = {}
    /\ (program = "gtzan" /\ args.type \notin {"train", "test"}) =>
          pc \in {"gtzan_main", "raised", "killed"}
    /\ pc = "raised" => GtzanInvalid(args)
    /\ pc = "usage_error" =>
          ~(args.dataset_path /\ args.origin /\ args.target)

C9_Witness ==
    pc = "raised" /\ args.type = "test" /\ args.model /\ ~args.song
        /\ fx = {} /\ ~log_dir

\* C10: once a run has written its history, history.csv holds one row per
\* completed epoch of the run, in order, and row j holds for each loss the
\* sum over the batches of epoch j divided by epoch_size.
C10_HistoryTable ==
    (pc \in TrainLoopPcs /\ Len(lists.gen_mae) >= 1) =>
        /\ Len(history_csv) = Len(lists.gen_mae)
        /\ Len(history_csv) =
              IF pc \in {"output", "save_gen", "save_disc", "epoch_end"}
              THEN epoch + 1 ELSE epoch
        /\ \A j \in 1..Len(history_csv) : \A n \in LossNames :
              history_csv[j][n] = Mean(epoch_logs[j][n], epoch_size)

C10_Witness ==
    /\ pc = "output" /\ Len(history_csv) = 2
    /\ history_csv[1].gen_mae # history_csv[2].gen_mae

\* what this run has put on disk: rows of history.csv, and the epoch of
\* each weight file it has written (0 when it has not written the file)
HistoryRows == Len(history_csv)
GenSaved ==
    IF HasGen /\ ckpt_files[generator_weights].run = run
    THEN ckpt_files[generator_weights].epoch ELSE 0
DiscSaved ==
    IF HasDisc /\ ckpt_files[discriminator_weights].run = run
    THEN ckpt_files[discriminator_weights].epoch ELSE 0

\* C11: in each epoch history.csv is written, then the epoch output, then
\* the generator weights, then the discriminator weights, then on_epoch_end
\* is called; so in every state, also after an interruption, the history
\* rows of the run are the generator saves or one more, and the generator
\* saves are the discriminator saves or one more.
C11_PersistenceOrder ==
    /\ HistoryRows - GenSaved \in {0, 1}
    /\ GenSaved - DiscSaved \in {0, 1}
    /\ HistoryRows - Cardinality(outputs) \in {0, 1}
    /\ Cardinality(outputs) - GenSaved \in {0, 1}
    /\ pc \in TrainLoopPcs =>
          /\ gen_saves = GenSaved /\ disc_saves = DiscSaved
          /\ disc_saves - shuffles \in {0, 1}
    /\ pc = "output" =>
          /\ HistoryRows = epoch + 1
          /\ Cardinality(outputs) = epoch /\ GenSaved = epoch
    /\ pc = "save_gen" =>
          /\ Cardinality(outputs) = epoch + 1
          /\ GenSaved = epoch /\ DiscSaved = epoch
    /\ pc = "save_disc" =>
          /\ HistoryRows = epoch + 1
          /\ GenSaved = epoch + 1 /\ DiscSaved = epoch
    /\ pc = "epoch_end" =>
          /\ DiscSaved = epoch + 1 /\ shuffles = epoch

C11_Witness ==
    /\ pc = "killed"
    /\ HistoryRows = 2 /\ GenSaved = 2 /\ DiscSaved = 1
====
